---- MODULE Spec2Model ----
(***************************************************************************)
(* Message delivery subsystem of the Shopify/Discord notification bot:     *)
(* the outbound message queue (src/src/queue/messageQueue.js), webhook     *)
(* ingestion (src/src/shopify/webhooks.js), the offline reconciliation     *)
(* sync (OfflineOrderSync, Database.markOrderProcessed) and the auto-DM    *)
(* producer (src/src/bot.js).                                              *)
(*                                                                         *)
(* Timestamps are modelled as the TEXT values SQLite stores and compares:  *)
(* <<day, format, timeOfDay>>, where format "sql" is the output of         *)
(* datetime('now') ("YYYY-MM-DD HH:MM:SS") and format "iso" the output of  *)
(* Date.toISOString() ("YYYY-MM-DDTHH:MM:SS.mmmZ").  The two share the     *)
(* first ten characters, then differ at the separator: ' ' sorts before    *)
(* 'T' under SQLite's BINARY collation.                                    *)
(***************************************************************************)
EXTENDS Integers, Sequences, FiniteSets, TLC

\* ---------------------------------------------------------------- bounds
MaxMsgs == 2
MaxPasses == 2
MaxDay == 1
MaxTod == 0
MaxRestarts == 1
MaxOrders == 2
MaxItems == 2
MaxAdmins == 1
MaxHooks == 2
MaxUsers == 2
MaxRequests == 2
MaxUpstream == 252

\* ------------------------------------------------------ program constants
DefaultMaxAttempts == 3
BatchLimit == 10
RetentionDays == 30

VARIABLES
    queue,              \* message_queue rows, index = id (AUTOINCREMENT)
    isProcessing,       \* MessageQueue.isProcessing
    processingInterval, \* MessageQueue.processingInterval is set
    passes,             \* activations of processQueue that are in progress
    restarts,           \* number of times the process was restarted
    purged,             \* ids of the rows cleanupOldMessages has deleted
    lastCleanup,        \* the count the last cleanupOldMessages returned
    now,                \* wall clock: [day, tod]
    deliveries,         \* history: processMessage invocations per message id
    sends,              \* history: successful external sends per message id
    origin,             \* history: the order a queued message is about (0: none)
    liveIntervals,      \* the setInterval timers of the queue that are live
    lastAdd,            \* history: what the last addMessage returned
    ordersSetting,      \* settings row orders_enabled: "missing", "true", "false"
    reactions,          \* the reaction timeouts of sent order notifications
    calls,              \* the calls made on the queue object, in order
    shop,               \* the orders that exist in the Shopify store
    ordersTable,        \* orders rows (Database.trackOrder)
    processedOrders,    \* processed_orders rows, in insertion order
    pendingData,        \* bot.pendingData: admin -> stored sync candidates
    applies,            \* processApprovedOrders activations, one slot per admin
    lastSync,           \* the result the last syncOfflineOrders returned
    hookLog,            \* history: genuine paid orders/create requests per order
    channelSends,       \* history: direct channel sends per order (webhook path)
    botReady,           \* initializeBot has set shopifyWebhooks and messageQueue
    secretSet,          \* config.shopify.webhookSecret is defined
    lastHook,           \* history: the last webhook request and its outcome
    syncCall,           \* history: the last syncOfflineOrders / fetch call and its outcome
    members,            \* member_tracking rows, by user_id
    guild,              \* the Discord guild: who is in it, with which roles
    autoDmSetting,      \* settings row auto_dm_enabled: "missing", "true", "false"
    sweep,              \* the activation of the auto-DM interval callback
    timers,             \* users with a pending scheduleAutoDM timeout
    firedClosed,        \* history: processAutoDM ran on a closed-DMs record
    enqueuedClosed,     \* history: auto_dm enqueued for a closed-DMs record
    autoDmRuns,         \* history: processAutoDM runs per member that met a
                        \* record and roles satisfying every gate (up to 2)
    lastRun             \* history: the last processAutoDM call and what it met

queueVars == <<queue, isProcessing, processingInterval, passes, deliveries, sends, origin,
               liveIntervals, lastAdd>>
auxVars == <<ordersSetting, reactions, calls>>
orderVars == <<shop, ordersTable, processedOrders, pendingData, applies, lastSync,
               hookLog, channelSends, botReady, secretSet, lastHook, syncCall>>
memberVars == <<members, guild, autoDmSetting, sweep, timers, firedClosed,
                enqueuedClosed, autoDmRuns, lastRun>>
cleanupVars == <<purged, lastCleanup>>
vars == <<queueVars, restarts, cleanupVars, auxVars, now, orderVars, memberVars>>

\* --------------------------------------------------------------- timestamps
NoTime == <<>>
SqlDatetime(t) == <<t.day, "sql", t.tod>>
IsoString(t) == <<t.day, "iso", t.tod>>

SepLT(f, g) == f = "sql" /\ g = "iso"

\* a < b for two timestamp strings, as SQLite compares TEXT (memcmp)
StrLT(a, b) ==
    \/ a[1] < b[1]
    \/ a[1] = b[1] /\ SepLT(a[2], b[2])
    \/ a[1] = b[1] /\ a[2] = b[2] /\ a[3] < b[3]

StrLE(a, b) == a = b \/ StrLT(a, b)

\* ------------------------------------------------------------ message rows
NotificationChannelId == "notification_channel"

\* the callers of addMessage: the reconciliation apply (order, priority 2), the
\* auto-DM producer (auto_dm, priority 1) and the admin queue test
\* (custom_channel, priority 1)
Producers ==
    {[type |-> "order", target_type |-> "channel",
      target_id |-> NotificationChannelId, priority |-> 2],
     [type |-> "auto_dm", target_type |-> "user", target_id |-> 1, priority |-> 1],
     [type |-> "custom_channel", target_type |-> "channel",
      target_id |-> NotificationChannelId, priority |-> 1]}

\* a later instant than t on the model's clock (t itself at the end of the clock)
Later(t) ==
    IF t.tod < MaxTod THEN [t EXCEPT !.tod = @ + 1]
    ELSE IF t.day < MaxDay THEN [day |-> t.day + 1, tod |-> 0]
    ELSE t

\* the scheduled_for a caller may pass: none, or a later instant in either format
SchedInputs(t) == {NoTime, SqlDatetime(Later(t)), IsoString(Later(t))}

Users == 1..MaxUsers

PassIds == 1..MaxPasses
IdlePass == [active |-> FALSE, batch |-> <<>>, idx |-> 0, due |-> {}]

\* message.max_attempts || 3
MaxAttemptsOf(m) == IF m.max_attempts = 0 THEN DefaultMaxAttempts ELSE m.max_attempts

\* ------------------------------------------------------------ the selection
\* WHERE status = 'pending' AND (scheduled_for IS NULL OR scheduled_for <= datetime('now'))
IsDue(m, t) ==
    /\ m.status = "pending"
    /\ (m.scheduled_for = NoTime \/ StrLE(m.scheduled_for, SqlDatetime(t)))

DueIds(q, t) == {i \in 1..Len(q) : IsDue(q[i], t)}

\* variant of the ordering that looks at created_at only
SortsBefore_CreatedOnly(a, b) == StrLT(a.created_at, b.created_at)

\* ORDER BY priority DESC, created_at ASC: a sorts strictly before b
SortsBefore(a, b) ==
    \/ a.priority > b.priority
    \/ a.priority = b.priority /\ StrLT(a.created_at, b.created_at)

Min(a, b) == IF a < b THEN a ELSE b

\* the first k rows of `rest` in every order the ORDER BY admits: each next row
\* is one that no remaining row sorts before
RECURSIVE Orderings(_, _, _)
Orderings(q, rest, k) ==
    IF k = 0 \/ rest = {}
    THEN {<<>>}
    ELSE UNION {{<<x>> \o s : s \in Orderings(q, rest \ {x}, k - 1)} :
                    x \in {y \in rest : \A z \in rest : ~SortsBefore(q[z], q[y])}}

\* a SELECT without the LIMIT clause
Batches_NoLimit(q, t) == Orderings(q, DueIds(q, t), Cardinality(DueIds(q, t)))

\* every result the SELECT ... ORDER BY ... LIMIT 10 may return: rows that tie
\* on (priority, created_at) come in an order SQL leaves open
Batches(q, t) == Orderings(q, DueIds(q, t), BatchLimit)

\* the row objects the pass iterates over (values as of the SELECT)
Snapshot(q, s) ==
    [i \in 1..Len(s) |->
        [id |-> s[i], type |-> q[s[i]].type, attempts |-> q[s[i]].attempts,
         max_attempts |-> q[s[i]].max_attempts, priority |-> q[s[i]].priority]]

FreeSlots(ps) == {p \in PassIds : ~ps[p].active}

\* processQueue up to its first delivery: the values `passes` may take
BeginPass(ps, q, t) ==
    IF DueIds(q, t) = {}
    THEN {ps}
    ELSE {[ps EXCEPT ![p] = [active |-> TRUE, batch |-> Snapshot(q, s), idx |-> 1,
                             due |-> DueIds(q, t)]] :
              p \in {x \in FreeSlots(ps) : \A y \in FreeSlots(ps) : x <= y},
              s \in Batches(q, t)}

\* ------------------------------------------------------------------ actions
\* an INSERT whose row starts with an attempt already counted
NewRow_Attempted(type, targetType, targetId, priority, sched, t) ==
    [type |-> type, target_type |-> targetType, target_id |-> targetId,
     status |-> "pending", attempts |-> 1, max_attempts |-> DefaultMaxAttempts,
     priority |-> priority, created_at |-> SqlDatetime(t),
     scheduled_for |-> IF sched = NoTime THEN IsoString(t) ELSE sched,
     sent_at |-> NoTime, error_message |-> "NULL"]

NewRow(type, targetType, targetId, priority, sched, t) ==
    [type |-> type, target_type |-> targetType, target_id |-> targetId,
     status |-> "pending", attempts |-> 0, max_attempts |-> DefaultMaxAttempts,
     priority |-> priority, created_at |-> SqlDatetime(t),
     scheduled_for |-> IF sched = NoTime THEN IsoString(t) ELSE sched,
     sent_at |-> NoTime, error_message |-> "NULL"]

\* startProcessing without its early return
StartProcessing_NoGuard(q) ==
    /\ isProcessing' = TRUE
    /\ processingInterval' = TRUE
    /\ liveIntervals' = liveIntervals + 1
    /\ passes' \in BeginPass(passes, q, now)

\* startProcessing: a no-op when the interval exists, else it sets the flag,
\* installs the interval and runs processQueue at once
StartProcessing(q) ==
    IF processingInterval
    THEN UNCHANGED <<isProcessing, processingInterval, passes, liveIntervals>>
    ELSE /\ isProcessing' = TRUE
         /\ processingInterval' = TRUE
         /\ liveIntervals' = liveIntervals + 1
         /\ passes' \in BeginPass(passes, q, now)

\* addMessage: the INSERT, then startProcessing when the loop is not running
AddMessage(type, targetType, targetId, priority, sched) ==
    /\ Len(queue) < MaxMsgs
    /\ LET q2 == Append(queue, NewRow(type, targetType, targetId, priority, sched, now)) IN
        /\ queue' = q2
        /\ deliveries' = Append(deliveries, 0)
        /\ sends' = Append(sends, 0)
        /\ lastAdd' = "true"
        /\ IF ~isProcessing
           THEN StartProcessing(q2)
           ELSE UNCHANGED <<isProcessing, processingInterval, passes, liveIntervals>>

\* addMessage when the INSERT throws: the catch returns false, nothing is
\* inserted and startProcessing is not reached
AddMessageFails ==
    /\ lastAdd' = "false"
    /\ UNCHANGED <<queue, isProcessing, processingInterval, passes, deliveries, sends,
                   liveIntervals>>

\* the setInterval callback of startProcessing
IntervalTick ==
    /\ processingInterval
    /\ passes' \in BeginPass(passes, queue, now)
    /\ UNCHANGED <<queue, isProcessing, processingInterval, restarts, cleanupVars, auxVars, now,
                   deliveries, sends, origin, liveIntervals, lastAdd, orderVars, memberVars>>

PendingCount(q) == Cardinality({i \in 1..Len(q) : q[i].status = "pending"})

\* processOfflineMessages, which initializeBot calls once the client is ready
ProcessOfflineMessages(ps, q, t) ==
    IF PendingCount(q) > 0 THEN BeginPass(ps, q, t) ELSE {ps}

\* the process is restarted: the constructor resets the in-memory fields, the
\* activations in progress are gone, the table persists, and initializeBot runs
Restart ==
    /\ restarts < MaxRestarts
    /\ restarts' = restarts + 1
    /\ isProcessing' = FALSE
    /\ processingInterval' = FALSE
    /\ liveIntervals' = 0
    /\ passes' \in ProcessOfflineMessages([p \in PassIds |-> IdlePass], queue, now)
    /\ reactions' = [reactions EXCEPT !.pending = {}]
    /\ UNCHANGED <<queue, cleanupVars, ordersSetting, calls, now, deliveries, sends, origin, lastAdd,
                   orderVars, memberVars>>

\* the switch of processMessage: which kinds have a sender
HasSender(type) == type \in {"order", "custom_dm", "custom_channel"}

MarkMessageSent(q, id, t) ==
    [q EXCEPT ![id].status = "sent", ![id].sent_at = SqlDatetime(t)]

MarkMessageFailed(q, id, errorMessage) ==
    [q EXCEPT ![id].status = "failed", ![id].error_message = errorMessage]

IncrementAttempts(q, id) == [q EXCEPT ![id].attempts = @ + 1]

\* what processQueue's catch block does with a message whose delivery threw
OnDeliveryFailure(q, m) ==
    IF m.attempts >= MaxAttemptsOf(m)
    THEN MarkMessageFailed(q, m.id, "Message sending failed")
    ELSE IncrementAttempts(q, m.id)

\* a loop that a thrown delivery error leaves
NextInPass_AbortBatch(pass) == IdlePass

NextInPass(pass) ==
    IF pass.idx >= Len(pass.batch)
    THEN IdlePass
    ELSE [pass EXCEPT !.idx = @ + 1]

\* one iteration of processQueue's loop: processMessage (the send, ok tells its
\* result) and the database update that follows it
ProcessMessage(p, ok) ==
    /\ passes[p].active
    /\ LET m == passes[p].batch[passes[p].idx] IN
        /\ deliveries' = [deliveries EXCEPT ![m.id] = @ + 1]
        /\ sends' = [sends EXCEPT ![m.id] = @ + (IF ok THEN 1 ELSE 0)]
        /\ queue' = IF ok
                    THEN MarkMessageSent(queue, m.id, now)
                    ELSE OnDeliveryFailure(queue, m)
    /\ passes' = [passes EXCEPT ![p] = NextInPass(passes[p])]
    /\ UNCHANGED <<isProcessing, processingInterval, restarts, cleanupVars, ordersSetting, calls, now,
                   origin, liveIntervals, lastAdd, orderVars, memberVars>>

\* the results a send of this kind can have (a kind without a sender never succeeds)
SendResults(type) == IF HasSender(type) THEN BOOLEAN ELSE {FALSE}

AdvanceClock ==
    /\ \/ /\ now.tod < MaxTod
          /\ now' = [now EXCEPT !.tod = @ + 1]
       \/ /\ now.day < MaxDay
          /\ now' = [day |-> now.day + 1, tod |-> 0]
    /\ UNCHANGED <<queueVars, restarts, cleanupVars, auxVars, orderVars, memberVars>>

\* ------------------------------------------------------------------ retention
\* datetime('now', '-30 days')
RetentionCutoff(t) == SqlDatetime([day |-> t.day - RetentionDays, tod |-> t.tod])

\* variant of the DELETE's condition without the status test
Purgeable_AnyStatus(m, t) == StrLT(m.created_at, RetentionCutoff(t))

\* WHERE created_at < datetime('now', '-30 days') AND status IN ('sent', 'failed')
Purgeable(m, t) ==
    /\ StrLT(m.created_at, RetentionCutoff(t))
    /\ m.status \in {"sent", "failed"}

\* cleanupOldMessages: the DELETE and its result.changes; 0 when the
\* statement fails
CleanupOldMessages(dbOk) ==
    /\ LET del == {i \in (1..Len(queue)) \ purged : Purgeable(queue[i], now)} IN
        IF dbOk
        THEN /\ purged' = purged \cup del
             /\ lastCleanup' = Cardinality(del)
        ELSE /\ purged' = purged
             /\ lastCleanup' = 0
    /\ UNCHANGED <<queueVars, restarts, auxVars, now, orderVars, memberVars>>

\* a row as addMessage inserted it at instant t, in the state a drain pass (or
\* none) has left it in
StoredRow(status, t) ==
    LET r == NewRow("order", "channel", NotificationChannelId, 2, NoTime, t) IN
    CASE status = "sent" -> [r EXCEPT !.status = "sent", !.sent_at = SqlDatetime(t)]
      [] status = "failed" ->
             [r EXCEPT !.status = "failed", !.attempts = DefaultMaxAttempts,
                       !.error_message = "Message sending failed"]
      [] OTHER -> r

\* the tables the retention run can meet: rows of every status created 29 to
\* 32 days before the run
StoredRows ==
    {StoredRow(status, [day |-> d, tod |-> 0]) :
         status \in {"pending", "sent", "failed"}, d \in 0..2}

StoredQueues == UNION {[1..k -> StoredRows] : k \in 0..MaxMsgs}

\* ------------------------------------------------------------------ orders
OrderIds == 1..MaxOrders
Admins == 1..MaxAdmins
Topics == {"orders/create", "orders/updated", "orders/fulfilled", "products/create",
           "products/update", "app/uninstalled"}
FinancialStatuses == {"paid", "pending"}

\* the order objects of the Shopify API and of the webhook payloads
OrderObjects ==
    [id : OrderIds, line_items : 1..MaxItems, financial_status : FinancialStatuses]

ShopIds == {o.id : o \in shop}
ShopOrder(id) == CHOOSE o \in shop : o.id = id

\* order.order_number, as Shopify derives it from the order's sequence number
OrderNumberOf(id) == 1000 + id

\* the TEXT value SQLite stores for an integer bound to a TEXT column
ToText(n) == <<"text", n>>

\* Database.trackOrder: INSERT OR REPLACE INTO orders, keyed by id
TrackOrder(tbl, order) ==
    {r \in tbl : r.id # order.id} \cup
        {[id |-> order.id, financial_status |-> order.financial_status]}

\* variant of isOrderProcessed that compares with the order number column
IsOrderProcessed_ByNumber(rows, orderId) ==
    \E i \in 1..Len(rows) : rows[i].order_number = ToText(orderId)

\* Database.isOrderProcessed: a row with this shopify_order_id exists
IsOrderProcessed(rows, orderId) ==
    \E i \in 1..Len(rows) : rows[i].shopify_order_id = ToText(orderId)

\* UNIQUE(shopify_order_id): an insert of this value would conflict
UniqueConflict(rows, text) ==
    \E i \in 1..Len(rows) : rows[i].shopify_order_id = text

NextRowId(rows) == IF rows = <<>> THEN 1 ELSE rows[Len(rows)].id + 1

MarkerRow(rows, orderId, orderNumber, syncSource, t) ==
    [id |-> NextRowId(rows), shopify_order_id |-> ToText(orderId),
     order_number |-> ToText(orderNumber), sync_source |-> syncSource,
     processed_at |-> SqlDatetime(t), notification_sent |-> FALSE]

\* variant of markOrderProcessed written as INSERT OR REPLACE: the row that
\* conflicts is deleted and a new one inserted
MarkOrderProcessed_Replace(rows, orderId, orderNumber, syncSource, t) ==
    LET kept == SelectSeq(rows, LAMBDA r : r.shopify_order_id # ToText(orderId))
    IN Append(kept, [MarkerRow(rows, orderId, orderNumber, syncSource, t)
                         EXCEPT !.id = NextRowId(rows)])

\* Database.markOrderProcessed: INSERT OR IGNORE under UNIQUE(shopify_order_id)
MarkOrderProcessed(rows, orderId, orderNumber, syncSource, t) ==
    IF UniqueConflict(rows, ToText(orderId))
    THEN rows
    ELSE Append(rows, MarkerRow(rows, orderId, orderNumber, syncSource, t))

\* Database.markNotificationSent
MarkNotificationSent(rows, orderId) ==
    [i \in 1..Len(rows) |->
        IF rows[i].shopify_order_id = ToText(orderId)
        THEN [rows[i] EXCEPT !.notification_sent = TRUE]
        ELSE rows[i]]

\* ---------------------------------------------------------------- webhooks
\* what express.json() leaves in req.body: the parsed object, never the raw text
RequestBody == "object"

\* the forms of body a caller can hand to handleWebhook
BodyForms == {"object", "string", "buffer"}

\* the X-Shopify-Hmac-Sha256 values a request can carry, relative to the value
\* the receiver computes: equal, same length but different, of another length
Signatures == {"valid", "wrong_hmac", "wrong_length"}

\* crypto.timingSafeEqual(Buffer.from(signature), Buffer.from(expected)): it
\* throws on buffers of different length, and Buffer.from throws on undefined
TimingSafeEqual(signature) ==
    CASE signature = "valid" -> "true"
      [] signature = "wrong_hmac" -> "false"
      [] OTHER -> "throws"

\* variant of verifyWebhook that never compares the signatures
VerifyWebhook_NoCompare(bodyForm, signatureMatches) ==
    /\ secretSet
    /\ bodyForm \in {"string", "buffer"}

\* verifyWebhook: createHmac throws without a secret, hmac.update throws on
\* anything but a string or a buffer, and both are caught as false; otherwise
\* the result is the comparison of the signatures
VerifyWebhook(bodyForm, signatureMatches) ==
    /\ secretSet
    /\ bodyForm \in {"string", "buffer"}
    /\ signatureMatches

\* the status the /webhook route responds with
ResponseStatus(hasHeaders, ready, success) ==
    IF ~hasHeaders THEN 400
    ELSE IF ~ready THEN 503
    ELSE IF success THEN 200
    ELSE 400

\* body.financial_status as handleWebhook reads it: a field of the parsed
\* object, undefined on a string or a buffer
FinancialStatusRead(bodyForm, order) ==
    IF bodyForm = "object" THEN order.financial_status ELSE "undefined"

\* variant of the topic switch that does not look at the payment status
CallsHandleOrderCreated_AnyStatus(topic, financialStatus) ==
    topic \in {"orders/create", "orders/updated"}

\* variant of the topic switch whose other branches fall into the order branch
CallsHandleOrderCreated_AnyTopic(topic, financialStatus) ==
    topic \in {"orders/create", "orders/updated"} => financialStatus = "paid"

\* the switch of handleWebhook: the branches that call handleOrderCreated
CallsHandleOrderCreated(topic, financialStatus) ==
    /\ topic \in {"orders/create", "orders/updated"}
    /\ financialStatus = "paid"

\* handleOrderCreated: trackOrder, then per line item a direct send to the
\* notification channel (the configured channel is in the client's cache)
HandleOrderCreated(order) ==
    /\ ordersTable' = TrackOrder(ordersTable, order)
    /\ channelSends' = [channelSends EXCEPT ![order.id] = @ + order.line_items]

\* handleWebhook returns { success: true } when the signature verified
HandleWebhookSuccess(bodyForm, signature) ==
    VerifyWebhook(bodyForm, TimingSafeEqual(signature) = "true")

\* handleWebhook: verification, then the switch on the topic
HandleWebhook(order, topic, bodyForm, signature) ==
    IF /\ HandleWebhookSuccess(bodyForm, signature)
       /\ CallsHandleOrderCreated(topic, FinancialStatusRead(bodyForm, order))
    THEN HandleOrderCreated(order)
    ELSE UNCHANGED <<ordersTable, channelSends>>

NoHook ==
    [n |-> 0, endpoint |-> "none", topic |-> "none", hasHeaders |-> FALSE,
     ready |-> FALSE, signature |-> "none", bodyForm |-> "none", paid |-> FALSE,
     verified |-> FALSE, success |-> FALSE, status |-> 0]

\* POST /webhook with handleWebhook: a request about `order`.  The history
\* counts, per order, the requests that carry both headers and the matching
\* signature of a paid orders/create event while the bot is ready, and how
\* many of them were answered 200.
Webhook(order, topic, hasHeaders, signature) ==
    /\ order \in shop
    /\ hookLog[order.id].deliveries < MaxHooks
    /\ LET success == HandleWebhookSuccess(RequestBody, signature)
           status == ResponseStatus(hasHeaders, botReady, success)
           counted == /\ hasHeaders /\ botReady /\ signature = "valid"
                      /\ topic = "orders/create"
                      /\ order.financial_status = "paid"
       IN /\ hookLog' =
                 IF counted
                 THEN [hookLog EXCEPT
                          ![order.id].deliveries = @ + 1,
                          ![order.id].accepted = @ + IF status = 200 THEN 1 ELSE 0]
                 ELSE hookLog
          /\ IF hasHeaders /\ botReady
             THEN HandleWebhook(order, topic, RequestBody, signature)
             ELSE UNCHANGED <<ordersTable, channelSends>>
    /\ UNCHANGED <<queueVars, memberVars, restarts, cleanupVars, auxVars, now, shop, processedOrders, pendingData,
                   applies, lastSync, botReady, secretSet, syncCall>>

\* the record of a POST /webhook request
RouteRecord(order, topic, hasHeaders, signature) ==
    LET reached == hasHeaders /\ botReady
        success == reached /\ HandleWebhookSuccess(RequestBody, signature)
    IN [n |-> lastHook.n + 1, endpoint |-> "/webhook", topic |-> topic,
        hasHeaders |-> hasHeaders, ready |-> botReady, signature |-> signature,
        bodyForm |-> RequestBody, paid |-> order.financial_status = "paid",
        verified |-> success, success |-> success,
        status |-> ResponseStatus(hasHeaders, botReady, success)]

\* a POST /webhook request, recorded
WebhookRequest(order, topic, hasHeaders, signature) ==
    /\ lastHook.n < MaxRequests
    /\ Webhook(order, topic, hasHeaders, signature)
    /\ lastHook' = RouteRecord(order, topic, hasHeaders, signature)

\* handleWebhook called on the handler object with a body of any form
HandleWebhookCall(order, topic, bodyForm, signature) ==
    /\ botReady
    /\ order \in shop
    /\ lastHook.n < MaxRequests
    /\ HandleWebhook(order, topic, bodyForm, signature)
    /\ lastHook' =
           [n |-> lastHook.n + 1, endpoint |-> "handleWebhook", topic |-> topic,
            hasHeaders |-> TRUE, ready |-> TRUE, signature |-> signature,
            bodyForm |-> bodyForm, paid |-> order.financial_status = "paid",
            verified |-> HandleWebhookSuccess(bodyForm, signature),
            success |-> HandleWebhookSuccess(bodyForm, signature),
            status |-> 0]
    /\ UNCHANGED <<queueVars, memberVars, restarts, cleanupVars, auxVars, now, shop, processedOrders, pendingData,
                   applies, lastSync, hookLog, botReady, secretSet, syncCall>>

\* verifyWebhook of server.js: no secret, no verification; the comparison is
\* outside any try block
LegacyVerifyWebhook(signature) ==
    IF ~secretSet THEN "true" ELSE TimingSafeEqual(signature)

\* the status POST /webhooks/shopify responds with
LegacyResponseStatus(verification) ==
    CASE verification = "true" -> 200
      [] verification = "false" -> 401
      [] OTHER -> 500

\* POST /webhooks/shopify of server.js: verifyWebhook, then sendOrderToDiscord
\* (one embed per request to the notification channel)
LegacyWebhook(order, signature) ==
    /\ order \in shop
    /\ lastHook.n < MaxRequests
    /\ LET verification == LegacyVerifyWebhook(signature) IN
        /\ channelSends' = IF verification = "true"
                           THEN [channelSends EXCEPT ![order.id] = @ + 1]
                           ELSE channelSends
        /\ lastHook' =
               [n |-> lastHook.n + 1, endpoint |-> "/webhooks/shopify",
                topic |-> "none", hasHeaders |-> signature # "missing",
                ready |-> TRUE, signature |-> signature, bodyForm |-> RequestBody,
                paid |-> order.financial_status = "paid",
                verified |-> verification = "true",
                success |-> verification = "true",
                status |-> LegacyResponseStatus(verification)]
    /\ UNCHANGED <<queueVars, memberVars, restarts, cleanupVars, auxVars, now, shop, ordersTable, processedOrders,
                   pendingData, applies, lastSync, hookLog, botReady, secretSet, syncCall>>

\* the client becomes ready and initializeBot completes
BotReady ==
    /\ ~botReady
    /\ botReady' = TRUE
    /\ UNCHANGED <<queueVars, memberVars, restarts, cleanupVars, auxVars, now, shop, ordersTable, processedOrders,
                   pendingData, applies, lastSync, hookLog, channelSends, secretSet, lastHook, syncCall>>

\* a customer places an order in the store
ShopOrderPlaced(order) ==
    /\ order.id \notin ShopIds
    /\ shop' = shop \cup {order}
    /\ UNCHANGED <<queueVars, memberVars, restarts, cleanupVars, auxVars, now, ordersTable, processedOrders,
                   pendingData, applies, lastSync, hookLog, channelSends, botReady,
                   secretSet, lastHook, syncCall>>

\* ---------------------------------------------------------- reconciliation
PageLimit == 250
NoData == [type |-> "none", orders |-> <<>>]
NoSync == [success |-> FALSE, ordersFound |-> 0, ordersToProcess |-> 0,
           orders |-> <<>>, fetched |-> <<>>, marked |-> {}]
IdleApply == [active |-> FALSE, orders |-> <<>>, idx |-> 0, item |-> 0,
              processedCount |-> 0, failedCount |-> 0]

\* the answers getOrdersCreatedAfter can give: orders of the store, each once,
\* at most one page of them
FetchResults ==
    UNION {{f \in [1..k -> shop] : \A i, j \in 1..k : i # j => f[i] # f[j]} :
               k \in 0..Min(PageLimit, Cardinality(shop))}

\* the filter loop of syncOfflineOrders
RECURSIVE FilterUnprocessed(_, _)
FilterUnprocessed(orders, rows) ==
    IF orders = <<>> THEN <<>>
    ELSE IF IsOrderProcessed(rows, Head(orders).id)
         THEN FilterUnprocessed(Tail(orders), rows)
         ELSE <<Head(orders)>> \o FilterUnprocessed(Tail(orders), rows)

MarkedTexts(rows) == {rows[i].shopify_order_id : i \in 1..Len(rows)}

\* variant of syncOfflineOrders that marks the candidates while it filters
SyncOfflineOrders_Marking(admin, fetched, apiOk) ==
    /\ botReady
    /\ IF ~apiOk
       THEN UNCHANGED <<lastSync, pendingData, processedOrders>>
       ELSE LET unprocessed == FilterUnprocessed(fetched, processedOrders) IN
            /\ lastSync' = [success |-> TRUE, ordersFound |-> Len(fetched),
                            ordersToProcess |-> Len(unprocessed),
                            orders |-> unprocessed, fetched |-> fetched,
                            marked |-> MarkedTexts(processedOrders)]
            /\ pendingData' =
                   IF Len(unprocessed) = 0
                   THEN pendingData
                   ELSE [pendingData EXCEPT
                            ![admin] = [type |-> "sync_orders", orders |-> unprocessed]]
            /\ processedOrders' =
                   IF Len(unprocessed) = 0
                   THEN processedOrders
                   ELSE MarkOrderProcessed(processedOrders, unprocessed[1].id,
                                           OrderNumberOf(unprocessed[1].id), "api_sync", now)
    /\ UNCHANGED <<queueVars, memberVars, restarts, cleanupVars, auxVars, now, shop, ordersTable,
                   applies, hookLog, channelSends, botReady, secretSet, lastHook>>

\* syncOfflineOrders and the part of handleSyncOfflineOrders that stores the
\* candidates; apiOk tells whether the connection test and the fetch succeed
SyncOfflineOrders(admin, fetched, apiOk) ==
    /\ botReady
    /\ IF ~apiOk
       THEN UNCHANGED <<lastSync, pendingData>>
       ELSE LET unprocessed == FilterUnprocessed(fetched, processedOrders) IN
            /\ lastSync' = [success |-> TRUE, ordersFound |-> Len(fetched),
                            ordersToProcess |-> Len(unprocessed),
                            orders |-> unprocessed, fetched |-> fetched,
                            marked |-> MarkedTexts(processedOrders)]
            /\ pendingData' =
                   IF Len(unprocessed) = 0
                   THEN pendingData
                   ELSE [pendingData EXCEPT
                            ![admin] = [type |-> "sync_orders", orders |-> unprocessed]]
    /\ UNCHANGED <<queueVars, memberVars, restarts, cleanupVars, auxVars, now, shop, ordersTable, processedOrders,
                   applies, hookLog, channelSends, botReady, secretSet, lastHook>>

\* no call recorded yet
NoCall == [done |-> FALSE, probeOk |-> TRUE, fetchOk |-> TRUE, threw |-> FALSE,
           upstream |-> 0, returned |-> 0]

\* a getOrdersCreatedAfter that swallows its request error and answers []
SyncThrows_FetchSwallowed(probeOk, fetchOk) == ~probeOk

\* whether syncOfflineOrders throws: the connection test reports failure, or
\* getOrdersCreatedAfter rethrows its request error
SyncThrows(probeOk, fetchOk) == ~probeOk \/ ~fetchOk

\* a call of syncOfflineOrders by handleSyncOfflineOrders, recorded: probeOk
\* and fetchOk tell whether testConnection and the fetch request succeed
SyncCall(admin, fetched, probeOk, fetchOk) ==
    /\ SyncOfflineOrders(admin, IF fetchOk THEN fetched ELSE <<>>,
                         ~SyncThrows(probeOk, fetchOk))
    /\ syncCall' = [NoCall EXCEPT !.done = TRUE, !.probeOk = probeOk,
                                  !.fetchOk = fetchOk,
                                  !.threw = SyncThrows(probeOk, fetchOk)]

\* what one orders.json request answers when n orders match: the first page
FirstPage(n, limit) == Min(n, limit)

\* getOrdersCreatedAfter, by the number of orders: one request with
\* limit=250, whose orders array is returned as it is
GetOrdersCreatedAfter(n) == FirstPage(n, PageLimit)

\* getOrdersCreatedAfter applied to the upstream of the recorded call
FetchCall ==
    /\ ~syncCall.done
    /\ syncCall' = [syncCall EXCEPT !.done = TRUE,
                                    !.returned = GetOrdersCreatedAfter(syncCall.upstream)]
    /\ UNCHANGED <<queueVars, memberVars, restarts, cleanupVars, auxVars, now, shop, ordersTable,
                   processedOrders, pendingData, applies, lastSync, hookLog, channelSends,
                   botReady, secretSet, lastHook>>

\* handleConfirmSyncOrders up to the call of processApprovedOrders
ConfirmSyncOrders(admin) ==
    /\ botReady
    /\ pendingData[admin].type = "sync_orders"
    /\ ~applies[admin].active
    /\ pendingData' = [pendingData EXCEPT ![admin] = NoData]
    /\ applies' = [applies EXCEPT ![admin] =
                       [active |-> TRUE, orders |-> pendingData[admin].orders, idx |-> 1,
                        item |-> 0, processedCount |-> 0, failedCount |-> 0]]
    /\ UNCHANGED <<queueVars, memberVars, restarts, cleanupVars, auxVars, now, shop, ordersTable, processedOrders,
                   lastSync, hookLog, channelSends, botReady, secretSet, lastHook, syncCall>>

\* handleCancelSyncOrders
CancelSyncOrders(admin) ==
    /\ botReady
    /\ pendingData[admin].type = "sync_orders"
    /\ pendingData' = [pendingData EXCEPT ![admin] = NoData]
    /\ UNCHANGED <<queueVars, memberVars, restarts, cleanupVars, auxVars, now, shop, ordersTable, processedOrders,
                   applies, lastSync, hookLog, channelSends, botReady, secretSet, lastHook, syncCall>>

\* a loop without the per-order try/catch: the first failure ends the batch
NextOrder_AbortOnFailure(ap, ok) ==
    IF ok
    THEN IF ap.idx >= Len(ap.orders)
         THEN [ap EXCEPT !.processedCount = @ + 1, !.active = FALSE,
                         !.orders = <<>>, !.idx = 0, !.item = 0]
         ELSE [ap EXCEPT !.processedCount = @ + 1, !.idx = @ + 1, !.item = 0]
    ELSE [ap EXCEPT !.failedCount = @ + 1, !.active = FALSE,
                    !.orders = <<>>, !.idx = 0, !.item = 0]

\* processApprovedOrders moves on to the next order, or returns its counts
NextOrder(ap, ok) ==
    LET counted == IF ok THEN [ap EXCEPT !.processedCount = @ + 1]
                         ELSE [ap EXCEPT !.failedCount = @ + 1]
    IN IF ap.idx >= Len(ap.orders)
       THEN [counted EXCEPT !.active = FALSE, !.orders = <<>>, !.idx = 0, !.item = 0]
       ELSE [counted EXCEPT !.idx = @ + 1, !.item = 0]

\* processApprovedOrders, first part of an iteration: trackOrder and
\* markOrderProcessed; dbOk tells whether the two statements succeed
ApplyMark(admin, dbOk) ==
    /\ applies[admin].active
    /\ applies[admin].item = 0
    /\ LET ap == applies[admin]
           order == ap.orders[ap.idx]
       IN IF dbOk
          THEN /\ ordersTable' = TrackOrder(ordersTable, order)
               /\ processedOrders' =
                      MarkOrderProcessed(processedOrders, order.id,
                                         OrderNumberOf(order.id), "api_sync", now)
               /\ applies' = [applies EXCEPT ![admin].item = 1]
          ELSE /\ applies' = [applies EXCEPT ![admin] = NextOrder(ap, FALSE)]
               /\ UNCHANGED <<ordersTable, processedOrders>>
    /\ UNCHANGED <<queueVars, memberVars, restarts, cleanupVars, auxVars, now, shop, pendingData, lastSync, hookLog,
                   channelSends, botReady, secretSet, lastHook, syncCall>>

\* processApprovedOrders, one line item: processOrderLineItem (addMessage,
\* markNotificationSent), and after the last one the end of the iteration
ApplyLineItem(admin, addOk) ==
    /\ applies[admin].active
    /\ applies[admin].item >= 1
    /\ LET ap == applies[admin]
           order == ap.orders[ap.idx]
       IN /\ IF addOk
             THEN /\ AddMessage("order", "channel", NotificationChannelId, 2, NoTime)
                  /\ origin' = Append(origin, order.id)
             ELSE /\ AddMessageFails
                  /\ origin' = origin
          /\ processedOrders' = MarkNotificationSent(processedOrders, order.id)
          /\ applies' = [applies EXCEPT ![admin] =
                             IF ap.item >= order.line_items
                             THEN NextOrder(ap, TRUE)
                             ELSE [ap EXCEPT !.item = @ + 1]]
    /\ UNCHANGED <<memberVars, restarts, cleanupVars, auxVars, now, shop, ordersTable, pendingData, lastSync, hookLog,
                   channelSends, botReady, secretSet, lastHook, syncCall>>

\* handleToggleOrders: a missing setting is created as 'true' and disabled
ToggleOrders ==
    /\ botReady
    /\ ordersSetting' = IF ordersSetting = "false" THEN "true" ELSE "false"
    /\ UNCHANGED <<queueVars, orderVars, memberVars, restarts, cleanupVars, reactions, calls, now>>

\* ----------------------------------------------------------------- members
NoRow == [present |-> FALSE]
MaxPerHour == 20
NotInGuild == [present |-> FALSE, verified |-> FALSE, closedDms |-> FALSE]
IdleSweep == [active |-> FALSE, list |-> <<>>, idx |-> 0]
NoRun == [user |-> 0, absent |-> FALSE, wasIn |-> FALSE, off |-> FALSE]

\* this.db of the bot object: the constructor binds no such field (the module
\* imports db, and only trackNewMember and processAutoDM read this.db)
BotDbBound == FALSE

\* Database.trackMember: INSERT OR REPLACE INTO member_tracking; the columns
\* it does not name take their defaults
TrackMember(rows, userId, isVerified, hasClosedDms, t) ==
    [rows EXCEPT ![userId] =
        [present |-> TRUE, joined_at |-> SqlDatetime(t), is_verified |-> isVerified,
         has_closed_dms_role |-> hasClosedDms, still_in_server |-> TRUE,
         welcome_dm_sent |-> FALSE]]

\* Database.updateMemberStatus: UPDATE ... WHERE user_id = ?, one column
UpdateMemberStatus(rows, userId, column, value) ==
    IF ~rows[userId].present THEN rows
    ELSE CASE column = "still_in_server" ->
                  [rows EXCEPT ![userId].still_in_server = value]
           [] column = "has_closed_dms_role" ->
                  [rows EXCEPT ![userId].has_closed_dms_role = value]
           [] column = "is_verified" ->
                  [rows EXCEPT ![userId].is_verified = value]

\* Database.getMembersForAutoDM: the user_ids the SELECT returns
GetMembersForAutoDM(rows) ==
    {u \in Users :
        /\ rows[u].present
        /\ rows[u].still_in_server
        /\ ~rows[u].has_closed_dms_role
        /\ ~rows[u].welcome_dm_sent
        /\ rows[u].is_verified}

\* the orders ORDER BY joined_at ASC may return the set in, cut like
\* slice(0, maxPerHour)
SweepLists(rows) ==
    LET el == GetMembersForAutoDM(rows)
        k == Min(MaxPerHour, Cardinality(el))
    IN {l \in [1..k -> el] :
            /\ \A i, j \in 1..k : i # j => l[i] # l[j]
            /\ \A i, j \in 1..k :
                   i < j => ~StrLT(rows[l[j]].joined_at, rows[l[i]].joined_at)
            /\ \A x \in el : (\A i \in 1..k : l[i] # x) =>
                   \A i \in 1..k : ~StrLT(rows[x].joined_at, rows[l[i]].joined_at)}

\* trackNewMember: the INSERT goes through this.db; without it the TypeError
\* is caught and nothing after the INSERT runs
TrackNewMember(userId, isVerified, hasClosedDms) ==
    IF BotDbBound
    THEN /\ members' = TrackMember(members, userId, isVerified, hasClosedDms, now)
         /\ timers' = IF hasClosedDms THEN timers ELSE timers \cup {userId}
    ELSE UNCHANGED <<members, timers>>

\* variant of processAutoDM that reads the record through the imported db
\* and has no closed-DMs check
ProcessAutoDM_Ungated(userId, templateActive) ==
    IF ~guild[userId].present
    THEN /\ members' = UpdateMemberStatus(members, userId, "still_in_server", FALSE)
         /\ UNCHANGED <<queueVars, enqueuedClosed>>
    ELSE IF \/ ~members[userId].present
            \/ members[userId].welcome_dm_sent
            \/ ~guild[userId].verified
         THEN UNCHANGED <<members, queueVars, enqueuedClosed>>
         ELSE /\ AddMessage("auto_dm", "user", userId, 1, NoTime)
              /\ origin' = Append(origin, 0)
              /\ enqueuedClosed' =
                     IF members[userId].has_closed_dms_role
                     THEN enqueuedClosed \cup {userId}
                     ELSE enqueuedClosed
              /\ members' = IF templateActive THEN members
                            ELSE [members EXCEPT ![userId].welcome_dm_sent = TRUE]

\* variant of processAutoDM that reads and writes through the imported db
ProcessAutoDM_DbBound(userId, templateActive) ==
    IF ~guild[userId].present
    THEN /\ members' = UpdateMemberStatus(members, userId, "still_in_server", FALSE)
         /\ UNCHANGED <<queueVars, enqueuedClosed>>
    ELSE IF \/ ~members[userId].present
            \/ members[userId].welcome_dm_sent
            \/ members[userId].has_closed_dms_role
            \/ ~guild[userId].verified
         THEN UNCHANGED <<members, queueVars, enqueuedClosed>>
         ELSE /\ AddMessage("auto_dm", "user", userId, 1, NoTime)
              /\ origin' = Append(origin, 0)
              /\ enqueuedClosed' = enqueuedClosed
              /\ members' = IF templateActive THEN members
                            ELSE [members EXCEPT ![userId].welcome_dm_sent = TRUE]

\* variant of processAutoDM that returns on a missing member without
\* markMemberAsLeft
ProcessAutoDM_NoLeaveMark(userId, templateActive) ==
    UNCHANGED <<members, queueVars, enqueuedClosed>>

\* processAutoDM: the member fetch, the record read through this.db, the
\* gates, the enqueue and (default welcome only) the welcome_dm_sent update
ProcessAutoDM(userId, templateActive) ==
    IF ~guild[userId].present
    THEN /\ members' = UpdateMemberStatus(members, userId, "still_in_server", FALSE)
         /\ UNCHANGED <<queueVars, enqueuedClosed>>
    ELSE IF \/ ~BotDbBound
            \/ ~members[userId].present
            \/ members[userId].welcome_dm_sent
            \/ members[userId].has_closed_dms_role
            \/ ~guild[userId].verified
         THEN UNCHANGED <<members, queueVars, enqueuedClosed>>
         ELSE /\ AddMessage("auto_dm", "user", userId, 1, NoTime)
              /\ origin' = Append(origin, 0)
              /\ enqueuedClosed' =
                     IF members[userId].has_closed_dms_role
                     THEN enqueuedClosed \cup {userId}
                     ELSE enqueuedClosed
              /\ members' = IF templateActive THEN members
                            ELSE [members EXCEPT ![userId].welcome_dm_sent = TRUE]

\* history: processAutoDM ran for a member in the guild whose record has the
\* closed-DMs flag
FiredOnClosed(userId) ==
    IF guild[userId].present /\ members[userId].present
       /\ members[userId].has_closed_dms_role
    THEN firedClosed \cup {userId}
    ELSE firedClosed

\* history: processAutoDM ran for a member in the guild with the verified
\* role whose record exists, is not flagged closed-DMs and has no welcome DM
RunOnEligible(userId) ==
    IF /\ guild[userId].present /\ guild[userId].verified
       /\ members[userId].present
       /\ ~members[userId].welcome_dm_sent
       /\ ~members[userId].has_closed_dms_role
    THEN [autoDmRuns EXCEPT ![userId] = Min(@ + 1, 2)]
    ELSE autoDmRuns

\* history: what a processAutoDM call for userId meets: the member gone from
\* the guild (and the record still saying in the server), or a member
\* passing every gate while the setting is "false"
RunRecord(userId) ==
    IF ~guild[userId].present
    THEN [user |-> userId, absent |-> TRUE,
          wasIn |-> members[userId].present /\ members[userId].still_in_server,
          off |-> FALSE]
    ELSE [user |-> userId, absent |-> FALSE, wasIn |-> FALSE,
          off |-> /\ autoDmSetting = "false"
                  /\ guild[userId].verified
                  /\ members[userId].present
                  /\ ~members[userId].welcome_dm_sent
                  /\ ~members[userId].has_closed_dms_role]

\* Events.GuildMemberAdd: the member arrives without roles; trackNewMember
GuildMemberAdd(userId) ==
    /\ ~guild[userId].present
    /\ guild' = [guild EXCEPT ![userId] =
                     [present |-> TRUE, verified |-> FALSE, closedDms |-> FALSE]]
    /\ TrackNewMember(userId, FALSE, FALSE)
    /\ UNCHANGED <<queueVars, orderVars, restarts, cleanupVars, auxVars, now, autoDmSetting, sweep,
                   firedClosed, enqueuedClosed, autoDmRuns, lastRun>>

\* Database.trackMember called for a member of the guild, with the roles the
\* member has
DatabaseTrackMember(userId) ==
    /\ guild[userId].present
    /\ members' = TrackMember(members, userId, guild[userId].verified,
                              guild[userId].closedDms, now)
    /\ UNCHANGED <<queueVars, orderVars, restarts, cleanupVars, auxVars, now, guild, autoDmSetting, sweep,
                   timers, firedClosed, enqueuedClosed, autoDmRuns, lastRun>>

\* Events.GuildMemberRemove: markMemberAsLeft
GuildMemberRemove(userId) ==
    /\ guild[userId].present
    /\ guild' = [guild EXCEPT ![userId] = NotInGuild]
    /\ members' = UpdateMemberStatus(members, userId, "still_in_server", FALSE)
    /\ UNCHANGED <<queueVars, orderVars, restarts, cleanupVars, auxVars, now, autoDmSetting, sweep,
                   timers, firedClosed, enqueuedClosed, autoDmRuns, lastRun>>

\* the member leaves while the gateway connection is down: no
\* GuildMemberRemove event is delivered, and the later member fetch of
\* processAutoDM is what finds the member gone
GuildMemberLeavesUnseen(userId) ==
    /\ guild[userId].present
    /\ guild' = [guild EXCEPT ![userId] = NotInGuild]
    /\ UNCHANGED <<queueVars, orderVars, restarts, cleanupVars, auxVars, now, members, autoDmSetting,
                   sweep, timers, firedClosed, enqueuedClosed, autoDmRuns, lastRun>>

\* Events.GuildMemberUpdate with one role given or taken: checkRoleChanges
GuildMemberUpdate(userId, role) ==
    /\ guild[userId].present
    /\ IF role = "closedDms"
       THEN /\ guild' = [guild EXCEPT ![userId].closedDms = ~@]
            /\ members' = UpdateMemberStatus(members, userId, "has_closed_dms_role",
                                             ~guild[userId].closedDms)
       ELSE /\ guild' = [guild EXCEPT ![userId].verified = ~@]
            /\ members' = UpdateMemberStatus(members, userId, "is_verified",
                                             ~guild[userId].verified)
    /\ UNCHANGED <<queueVars, orderVars, restarts, cleanupVars, auxVars, now, autoDmSetting, sweep,
                   timers, firedClosed, enqueuedClosed, autoDmRuns, lastRun>>

\* handleToggleAutoDM: a missing setting is created and enabled
ToggleAutoDM ==
    /\ botReady
    /\ autoDmSetting' = IF autoDmSetting = "true" THEN "false" ELSE "true"
    /\ UNCHANGED <<queueVars, orderVars, restarts, cleanupVars, auxVars, now, members, guild, sweep,
                   timers, firedClosed, enqueuedClosed, autoDmRuns, lastRun>>

\* the interval callback of startAutoDMProcessor up to its first processAutoDM
SweepTick ==
    /\ botReady
    /\ ~sweep.active
    /\ IF autoDmSetting = "true" /\ GetMembersForAutoDM(members) # {}
       THEN sweep' \in {[active |-> TRUE, list |-> l, idx |-> 1] :
                            l \in SweepLists(members)}
       ELSE UNCHANGED sweep
    /\ UNCHANGED <<queueVars, orderVars, restarts, cleanupVars, auxVars, now, members, guild,
                   autoDmSetting, timers, firedClosed, enqueuedClosed, autoDmRuns, lastRun>>

\* one iteration of the sweep's loop
SweepStep(templateActive) ==
    /\ sweep.active
    /\ LET userId == sweep.list[sweep.idx] IN
        /\ ProcessAutoDM(userId, templateActive)
        /\ firedClosed' = FiredOnClosed(userId)
        /\ autoDmRuns' = RunOnEligible(userId)
    /\ sweep' = IF sweep.idx >= Len(sweep.list) THEN IdleSweep
                ELSE [sweep EXCEPT !.idx = @ + 1]
    /\ UNCHANGED <<orderVars, restarts, cleanupVars, auxVars, now, guild, autoDmSetting, timers>>

\* one iteration of the sweep's loop, recorded
SweepRun(templateActive) ==
    /\ SweepStep(templateActive)
    /\ lastRun' = RunRecord(sweep.list[sweep.idx])

\* the timeout callback of scheduleAutoDM
TimerFire(userId, templateActive) ==
    /\ userId \in timers
    /\ timers' = timers \ {userId}
    /\ ProcessAutoDM(userId, templateActive)
    /\ firedClosed' = FiredOnClosed(userId)
    /\ autoDmRuns' = RunOnEligible(userId)
    /\ lastRun' = RunRecord(userId)
    /\ UNCHANGED <<orderVars, restarts, cleanupVars, auxVars, now, guild, autoDmSetting, sweep>>

\* ------------------------------------------------------------ specification
InitQueue ==
    /\ queue = <<>>
    /\ isProcessing = FALSE
    /\ processingInterval = FALSE
    /\ passes = [p \in PassIds |-> IdlePass]
    /\ restarts = 0
    /\ purged = {}
    /\ lastCleanup = 0
    /\ now = [day |-> 0, tod |-> 0]
    /\ deliveries = <<>>
    /\ sends = <<>>
    /\ origin = <<>>
    /\ liveIntervals = 0
    /\ lastAdd = "none"

InitSync == syncCall = NoCall

NoReactions == [pending |-> {}, added |-> {}, failed |-> {}]

InitAux ==
    /\ ordersSetting = "missing"
    /\ reactions = NoReactions
    /\ calls = <<>>

InitOrderTables ==
    /\ shop = {}
    /\ ordersTable = {}
    /\ processedOrders = <<>>
    /\ pendingData = [a \in Admins |-> NoData]
    /\ applies = [a \in Admins |-> IdleApply]
    /\ lastSync = NoSync
    /\ hookLog = [o \in OrderIds |-> [deliveries |-> 0, accepted |-> 0]]
    /\ channelSends = [o \in OrderIds |-> 0]
    /\ botReady = FALSE
    /\ lastHook = NoHook

InitMembers ==
    /\ members = [u \in Users |-> NoRow]
    /\ guild = [u \in Users |-> NotInGuild]
    /\ autoDmSetting = "missing"
    /\ sweep = IdleSweep
    /\ timers = {}
    /\ firedClosed = {}
    /\ enqueuedClosed = {}
    /\ autoDmRuns = [u \in Users |-> 0]
    /\ lastRun = NoRun

\* the queue: its producers' calls, the drain loop, restarts and the clock
Init ==
    /\ InitQueue
    /\ InitOrderTables
    /\ InitSync
    /\ InitAux
    /\ InitMembers
    /\ secretSet = TRUE

Next ==
    \/ \E pr \in Producers, sched \in SchedInputs(now) :
           /\ AddMessage(pr.type, pr.target_type, pr.target_id, pr.priority, sched)
           /\ origin' = Append(origin, 0)
           /\ UNCHANGED <<restarts, cleanupVars, auxVars, now, orderVars, memberVars>>
    \/ IntervalTick
    \/ Restart
    \/ \E p \in PassIds :
           \E ok \in BOOLEAN :
               /\ passes[p].active
               /\ ok \in SendResults(passes[p].batch[passes[p].idx].type)
               /\ ProcessMessage(p, ok)
               /\ UNCHANGED reactions
    \/ AdvanceClock

Spec == Init /\ [][Next]_vars

\* one iteration of the loop of some drain pass in progress
ProcessQueueStep ==
    \E p \in PassIds :
        \E ok \in BOOLEAN :
            /\ passes[p].active
            /\ ok \in SendResults(passes[p].batch[passes[p].idx].type)
            /\ ProcessMessage(p, ok)
            /\ UNCHANGED reactions

\* the process keeps running and timers fire: a registered interval keeps
\* ticking, a pass in progress keeps iterating (each awaited send settles),
\* and time passes.  Enqueues and restarts are the environment's, not fair.
Fairness ==
    /\ WF_vars(IntervalTick)
    /\ WF_vars(ProcessQueueStep)
    /\ WF_vars(AdvanceClock)

SpecLive == Init /\ [][Next]_vars /\ Fairness

\* the order flows within one UTC day: webhook requests, the reconciliation
\* sync and its apply.  A message enqueued without scheduled_for is not due on
\* the day it is enqueued, so no drain pass has anything to select here.
InitOrders ==
    /\ InitQueue
    /\ InitOrderTables
    /\ InitSync
    /\ InitAux
    /\ InitMembers
    /\ secretSet \in BOOLEAN

NextOrders ==
    \/ BotReady
    \/ \E order \in OrderObjects : ShopOrderPlaced(order)
    \/ \E order \in shop, topic \in Topics, hasHeaders \in BOOLEAN,
          signature \in {"valid", "wrong_hmac"} :
           /\ Webhook(order, topic, hasHeaders, signature)
           /\ UNCHANGED lastHook
    \/ \E admin \in Admins, fetched \in FetchResults, apiOk \in BOOLEAN :
           /\ SyncOfflineOrders(admin, fetched, apiOk)
           /\ UNCHANGED syncCall
    \/ \E admin \in Admins : ConfirmSyncOrders(admin)
    \/ \E admin \in Admins : CancelSyncOrders(admin)
    \/ \E admin \in Admins, dbOk \in BOOLEAN : ApplyMark(admin, dbOk)
    \/ \E admin \in Admins : ApplyLineItem(admin, TRUE)

SpecOrders == InitOrders /\ [][NextOrders]_vars

\* the reconciliation on its own: the sync with a failing or answering
\* upstream, the confirmation and the apply
NextSync ==
    \/ BotReady
    \/ \E order \in OrderObjects : ShopOrderPlaced(order)
    \/ \E admin \in Admins, fetched \in FetchResults, probeOk \in BOOLEAN,
          fetchOk \in BOOLEAN :
           SyncCall(admin, fetched, probeOk, fetchOk)
    \/ \E admin \in Admins : ConfirmSyncOrders(admin)
    \/ \E admin \in Admins : CancelSyncOrders(admin)
    \/ \E admin \in Admins, dbOk \in BOOLEAN : ApplyMark(admin, dbOk)
    \/ \E admin \in Admins : ApplyLineItem(admin, TRUE)

SpecSync == InitOrders /\ [][NextSync]_vars

\* the apply with a failing database and a failing enqueue, and the orders
\* toggle
NextApply ==
    \/ BotReady
    \/ \E order \in OrderObjects : ShopOrderPlaced(order)
    \/ ToggleOrders
    \/ \E admin \in Admins, fetched \in FetchResults :
           /\ SyncOfflineOrders(admin, fetched, TRUE)
           /\ UNCHANGED syncCall
    \/ \E admin \in Admins : ConfirmSyncOrders(admin)
    \/ \E admin \in Admins, dbOk \in BOOLEAN : ApplyMark(admin, dbOk)
    \/ \E admin \in Admins, addOk \in BOOLEAN : ApplyLineItem(admin, addOk)

SpecApply == InitOrders /\ [][NextApply]_vars

\* the fetch as a function of the number of upstream orders in the window
InitFetch ==
    /\ InitQueue
    /\ InitOrderTables
    /\ InitMembers
    /\ secretSet = TRUE
    /\ InitAux
    /\ syncCall \in {[NoCall EXCEPT !.upstream = n] : n \in 0..MaxUpstream}

NextFetch == FetchCall

SpecFetch == InitFetch /\ [][NextFetch]_vars

\* the retention run on a table of old and recent rows, 31 or 32 days after
\* the oldest of them was created
InitCleanup ==
    /\ queue \in StoredQueues
    /\ deliveries = [i \in 1..Len(queue) |-> 0]
    /\ sends = [i \in 1..Len(queue) |-> 0]
    /\ origin = [i \in 1..Len(queue) |-> 0]
    /\ liveIntervals = 0
    /\ lastAdd = "none"
    /\ isProcessing = FALSE
    /\ processingInterval = FALSE
    /\ passes = [p \in PassIds |-> IdlePass]
    /\ restarts = 0
    /\ purged = {}
    /\ lastCleanup = 0
    /\ now \in {[day |-> RetentionDays + 1, tod |-> 0],
                [day |-> RetentionDays + 2, tod |-> 0]}
    /\ InitOrderTables
    /\ InitSync
    /\ InitAux
    /\ InitMembers
    /\ secretSet = TRUE

NextCleanup == \E dbOk \in BOOLEAN : CleanupOldMessages(dbOk)

SpecCleanup == InitCleanup /\ [][NextCleanup]_vars

\* webhook ingestion on its own: the /webhook route, handleWebhook called with
\* a body of any form, and the /webhooks/shopify endpoint of server.js, with
\* and without a configured secret
NextHooks ==
    \/ BotReady
    \/ \E order \in OrderObjects : ShopOrderPlaced(order)
    \/ \E order \in shop, topic \in Topics, hasHeaders \in BOOLEAN,
          signature \in Signatures :
           WebhookRequest(order, topic, hasHeaders, signature)
    \/ \E order \in shop, topic \in Topics, bodyForm \in BodyForms,
          signature \in Signatures :
           HandleWebhookCall(order, topic, bodyForm, signature)
    \/ \E order \in shop, signature \in Signatures \cup {"missing"} :
           LegacyWebhook(order, signature)

SpecHooks == InitOrders /\ [][NextHooks]_vars

\* the member flows: guild events, the member table, the auto-DM setting and
\* the periodic sweep.  No timeout of scheduleAutoDM is ever pending (timers
\* stays empty, see TrackNewMember), so TimerFire is never enabled and is no
\* disjunct here.
NextMembers ==
    \/ BotReady
    \/ \E userId \in Users : GuildMemberAdd(userId)
    \/ \E userId \in Users : DatabaseTrackMember(userId)
    \/ \E userId \in Users : GuildMemberRemove(userId)
    \/ \E userId \in Users, role \in {"closedDms", "verified"} :
           GuildMemberUpdate(userId, role)
    \/ ToggleAutoDM
    \/ SweepTick
    \/ \E templateActive \in BOOLEAN :
           /\ SweepStep(templateActive)
           /\ UNCHANGED lastRun

SpecMembers == Init /\ [][NextMembers]_vars

\* the auto-DM runs of members who come, leave (seen or unseen by the bot),
\* gain and lose the verified role, while the setting is toggled
NextAutoDm ==
    \/ BotReady
    \/ \E userId \in Users : GuildMemberAdd(userId)
    \/ \E userId \in Users : DatabaseTrackMember(userId)
    \/ \E userId \in Users : GuildMemberRemove(userId)
    \/ \E userId \in Users : GuildMemberLeavesUnseen(userId)
    \/ \E userId \in Users : GuildMemberUpdate(userId, "verified")
    \/ ToggleAutoDM
    \/ SweepTick
    \/ \E templateActive \in BOOLEAN : SweepRun(templateActive)

SpecAutoDm == Init /\ [][NextAutoDm]_vars

\* ------------------------------------------------------- queue properties
MsgIds == 1..Len(queue)

\* the instant a stored timestamp string denotes, whatever its format
InstantReached(s, t) == s[1] < t.day \/ (s[1] = t.day /\ s[3] <= t.tod)

\* C1: a message whose every delivery attempt failed is Failed exactly when it
\* has had maxAttempts delivery attempts, and it is never attempted beyond that.
C1_RetryBound ==
    \A i \in MsgIds :
        sends[i] = 0 =>
            /\ (queue[i].status = "failed") <=> (deliveries[i] >= MaxAttemptsOf(queue[i]))
            /\ deliveries[i] <= MaxAttemptsOf(queue[i])

\* C2: in every reachable state, attempts <= maxAttempts for every message.
C2_AttemptsBounded ==
    \A i \in MsgIds : queue[i].attempts <= MaxAttemptsOf(queue[i])

C4_PriorityOrdering ==
    [][\A p \in PassIds :
          (passes[p].active /\ passes'[p] # passes[p] /\ deliveries' # deliveries) =>
              LET k == passes[p].idx
                  m == passes[p].batch[k]
              IN \A x \in passes[p].due :
                     (\A i \in 1..k : passes[p].batch[i].id # x) =>
                         queue[x].priority <= m.priority]_vars

\* C4 witness: a pass has attempted a higher-priority message first although
\* it was enqueued after the lower-priority one that comes next.
C4_Witness ==
    \E p \in PassIds :
        /\ passes[p].active
        /\ passes[p].idx = 2
        /\ passes[p].batch[1].priority > passes[p].batch[2].priority
        /\ passes[p].batch[1].id > passes[p].batch[2].id
        /\ deliveries[passes[p].batch[1].id] > 0

\* C5: a pending message satisfies the selection condition of a drain pass
\* exactly when the instant of its scheduledFor has been reached; a message
\* enqueued without scheduledFor carries the enqueue instant.
C5_SchedulingRespect ==
    \A i \in MsgIds :
        queue[i].status = "pending" =>
            (IsDue(queue[i], now) <=> InstantReached(queue[i].scheduled_for, now))

OlderThanWindow(m, t) ==
    \/ m.created_at[1] < t.day - RetentionDays
    \/ m.created_at[1] = t.day - RetentionDays /\ m.created_at[3] < t.tod

\* C20: a run of cleanupOldMessages deletes no Pending row and no Sent or
\* Failed row within the 30-day window, deletes every Sent or Failed row older
\* than the window, and returns the number of rows it deleted.
C20_Retention ==
    [][(purged' # purged \/ lastCleanup' # lastCleanup) =>
          /\ purged \subseteq purged'
          /\ \A i \in purged' \ purged :
                 /\ queue[i].status \in {"sent", "failed"}
                 /\ OlderThanWindow(queue[i], now)
          /\ lastCleanup' \in {0, Cardinality(purged' \ purged)}
          /\ lastCleanup' = 0 => purged' = purged
          /\ purged' # purged =>
                 \A i \in (1..Len(queue)) \ purged' :
                     ~(queue[i].status \in {"sent", "failed"}
                         /\ OlderThanWindow(queue[i], now))]_vars

\* C20 witness: a run deleted one old Sent or Failed row and left an equally
\* old Pending row in the table.
C20_Witness ==
    /\ lastCleanup = 1
    /\ \E i \in purged, j \in (1..Len(queue)) \ purged :
           /\ queue[j].status = "pending"
           /\ OlderThanWindow(queue[j], now)
           /\ queue[j].created_at = queue[i].created_at

\* the ids a pass in progress has selected and not yet recorded an outcome for
Unrecorded(p) ==
    IF passes[p].active
    THEN {passes[p].batch[k].id : k \in passes[p].idx..Len(passes[p].batch)}
    ELSE {}

\* C21: no message is held by two drain passes at once (selected by both,
\* its outcome recorded by neither), and no message is sent more than once.
C21_NoConcurrentClaim ==
    /\ \A p, q \in PassIds : p # q => Unrecorded(p) \cap Unrecorded(q) = {}
    /\ \A i \in MsgIds : sends[i] <= 1

\* C22: every Pending message that a drain pass would select (its
\* scheduled_for has passed) eventually becomes Sent or Failed.
C22_QueueLiveness ==
    \A i \in 1..MaxMsgs :
        [] ((i \in MsgIds /\ queue[i].status = "pending" /\ IsDue(queue[i], now))
              => <> (i \in MsgIds /\ queue[i].status \in {"sent", "failed"}))

\* ------------------------------------------------------- apply properties
Handled(ap) == ap.processedCount + ap.failedCount

\* C25: a running processApprovedOrders takes the candidates one by one in
\* list order, whatever the outcome of each, and returns only after the last
\* one, with processedCount + failedCount equal to the number of candidates.
C25_BatchNeverAborts ==
    [][\A a \in Admins :
          (applies[a].active /\ applies'[a] # applies[a])
          => \/ /\ applies'[a].active
                /\ applies'[a].orders = applies[a].orders
                /\ applies'[a].idx = applies[a].idx
                /\ Handled(applies'[a]) = Handled(applies[a])
             \/ /\ applies'[a].active
                /\ applies'[a].orders = applies[a].orders
                /\ applies'[a].idx = applies[a].idx + 1
                /\ Handled(applies'[a]) = applies[a].idx
             \/ /\ ~applies'[a].active
                /\ applies[a].idx = Len(applies[a].orders)
                /\ Handled(applies'[a]) = Len(applies[a].orders)]_vars

\* an apply of two candidates has returned with one order failed and one
\* processed
C25_Witness ==
    \E a \in Admins :
        /\ ~applies[a].active
        /\ applies[a].failedCount = 1
        /\ applies[a].processedCount = 1

\* the first of two candidates failed and the second is being processed
C25_WitnessContinues ==
    \E a \in Admins :
        /\ applies[a].active
        /\ applies[a].idx = 2
        /\ applies[a].item >= 1
        /\ applies[a].failedCount = 1

\* C26: a syncOfflineOrders call whose connection test or whose fetch fails
\* throws; it returns no result, stores no candidates, and leaves the message
\* queue and the processed-order markers as they were.
C26_SyncFailureAborts ==
    [][(/\ syncCall' # syncCall
        /\ ~syncCall'.probeOk \/ ~syncCall'.fetchOk)
       => /\ syncCall'.threw
          /\ lastSync' = lastSync
          /\ pendingData' = pendingData
          /\ queue' = queue
          /\ processedOrders' = processedOrders]_vars

\* the fetch failed after a successful connection test, while the store held
\* an order no marker covers; nothing was returned or stored
C26_Witness ==
    /\ syncCall.done
    /\ syncCall.probeOk
    /\ ~syncCall.fetchOk
    /\ syncCall.threw
    /\ \E order \in shop : ~IsOrderProcessed(processedOrders, order.id)
    /\ lastSync = NoSync
    /\ \A a \in Admins : pendingData[a] = NoData

\* C27: getOrdersCreatedAfter returns every upstream order of the window,
\* however many there are, so ordersFound is the upstream total.
C27_FetchComplete ==
    syncCall.done => syncCall.returned = syncCall.upstream

\* ------------------------------------------------------ member properties
\* C28: a member record is never removed, welcome_dm_sent never goes back to
\* false, and a rejoin of a member with a record sets still_in_server to true
\* without resetting welcome_dm_sent.
C28_WelcomeMonotonic ==
    [][\A u \in Users :
          members[u].present =>
             /\ members'[u].present
             /\ members[u].welcome_dm_sent => members'[u].welcome_dm_sent
             /\ (~guild[u].present /\ guild'[u].present)
                   => /\ members'[u].still_in_server
                      /\ members'[u].welcome_dm_sent = members[u].welcome_dm_sent]_vars

\* C29: a processAutoDM call for a member who is no longer in the guild
\* enqueues nothing, schedules nothing, and changes only still_in_server (to
\* false) in that member's record; no other record changes.
C29_DepartedMember ==
    [][(/\ sweep.active
        /\ sweep' # sweep
        /\ ~guild[sweep.list[sweep.idx]].present)
       => LET u == sweep.list[sweep.idx] IN
             /\ queue' = queue
             /\ sends' = sends
             /\ timers' = timers
             /\ members'[u].present = members[u].present
             /\ members[u].present
                   => members'[u] = [members[u] EXCEPT !.still_in_server = FALSE]
             /\ \A v \in Users \ {u} : members'[v] = members[v]]_vars

\* the last processAutoDM call met a member gone from the guild whose record
\* still said in the server; the record now says left, its other gates as
\* the sweep selected them, and nothing is queued
C29_Witness ==
    /\ lastRun.absent
    /\ lastRun.wasIn
    /\ ~guild[lastRun.user].present
    /\ members[lastRun.user].present
    /\ ~members[lastRun.user].still_in_server
    /\ members[lastRun.user].is_verified
    /\ ~members[lastRun.user].has_closed_dms_role
    /\ ~members[lastRun.user].welcome_dm_sent
    /\ queue = <<>>

\* the ids of the AutoDirectMessage rows of a queue
AutoDmIds(q) == {i \in 1..Len(q) : q[i].type = "auto_dm"}

OrderMsgIds(q) == {i \in 1..Len(q) : q[i].type = "order"}

\* C31: no step taken while orders_enabled is "false" adds an order
\* notification to the queue or sends one to the channel.
C31_OrdersToggleOff ==
    [][ordersSetting = "false"
       => /\ OrderMsgIds(queue') \subseteq OrderMsgIds(queue)
          /\ channelSends' = channelSends]_vars

ProducedKinds == {pr.type : pr \in Producers}

\* how many of the processMessage calls made for message i reached a send
SendAttempts(i) == IF HasSender(queue[i].type) THEN deliveries[i] ELSE 0

\* C23: every processMessage call for a message of a produced kind is routed
\* to a send, so no such message is failed without a send being attempted.
C23_DispatchTotal ==
    \A i \in MsgIds :
        queue[i].type \in ProducedKinds =>
            /\ SendAttempts(i) = deliveries[i]
            /\ queue[i].status = "failed" => SendAttempts(i) > 0

\* C24: a step in which a pass's delivery of one message fails changes no
\* other row, and the pass goes on to the next message of its batch.
C24_FailureContained ==
    [][\A p \in PassIds :
          (/\ passes[p].active
           /\ passes'[p] # passes[p]
           /\ deliveries' # deliveries
           /\ sends' = sends)
          => LET m == passes[p].batch[passes[p].idx] IN
                /\ \A j \in MsgIds \ {m.id} : queue'[j] = queue[j]
                /\ passes[p].idx < Len(passes[p].batch)
                      => passes'[p] = [passes[p] EXCEPT !.idx = @ + 1]]_vars

\* a pass has failed to deliver the first message of a batch of two and is at
\* the second
C24_Witness ==
    \E p \in PassIds :
        /\ passes[p].active
        /\ Len(passes[p].batch) = 2
        /\ passes[p].idx = 2
        /\ LET first == passes[p].batch[1].id IN
              /\ deliveries[first] = 1
              /\ sends[first] = 0
              /\ queue[first].attempts = 1
              /\ queue[passes[p].batch[2].id].attempts = 0

\* ------------------------------------------------------- order properties
MarkerRows(o) ==
    {i \in 1..Len(processedOrders) : processedOrders[i].shopify_order_id = ToText(o)}

QueuedFor(o) == {i \in 1..Len(queue) : origin[i] = o}

\* the notifications produced for an order so far, on either path
Notifications(o) == channelSends[o] + Cardinality(QueuedFor(o))

\* C6: once the same paid orders/create event has been delivered two or more
\* times, there is exactly one marker for the order, its notification has been
\* produced once (once per line item), and every delivery was answered as
\* accepted.
C6_WebhookIdempotency ==
    \A o \in ShopIds :
        hookLog[o].deliveries >= 2 =>
            /\ Cardinality(MarkerRows(o)) = 1
            /\ Notifications(o) = ShopOrder(o).line_items
            /\ hookLog[o].accepted = hookLog[o].deliveries

SameMarker(r, q) ==
    /\ r.id = q.id
    /\ r.shopify_order_id = q.shopify_order_id
    /\ r.order_number = q.order_number
    /\ r.sync_source = q.sync_source
    /\ r.processed_at = q.processed_at

FetchedIds == {lastSync.fetched[i].id : i \in 1..Len(lastSync.fetched)}
CandidateIds == {lastSync.orders[i].id : i \in 1..Len(lastSync.orders)}

\* C8: a successful sync reports as ordersFound the number of orders the fetch
\* returned and as ordersToProcess the number of those without a marker, and
\* its candidate list holds exactly those orders, each once, in fetch order.
C8_DiffCorrectness ==
    lastSync.success =>
        /\ lastSync.ordersFound = Len(lastSync.fetched)
        /\ CandidateIds = {o \in FetchedIds : ToText(o) \notin lastSync.marked}
        /\ lastSync.ordersToProcess = Cardinality(CandidateIds)
        /\ Len(lastSync.orders) = Cardinality(CandidateIds)
        /\ lastSync.orders =
               SelectSeq(lastSync.fetched, LAMBDA x : x.id \in CandidateIds)

\* C8 witness: a sync fetched two orders of which exactly one was marked.
C8_Witness ==
    /\ lastSync.success
    /\ lastSync.ordersFound = 2
    /\ lastSync.ordersToProcess = 1
    /\ lastSync.marked # {}

\* a step in which a sync run reports its result or stores its candidates
SyncStep ==
    \/ lastSync' # lastSync
    \/ /\ pendingData' # pendingData
       /\ applies' = applies
       /\ \E a \in Admins : pendingData'[a].type = "sync_orders"

\* C12: a sync run (probe, fetch, diff) changes no queue row, marker or order
\* row, whatever it returns; a run that finds no unprocessed order reports
\* ordersToProcess = 0 and stores no candidates; the queue and the markers
\* change only in steps of a confirmed apply.
C12_DiffReadOnly ==
    [][/\ SyncStep =>
              /\ queue' = queue
              /\ processedOrders' = processedOrders
              /\ ordersTable' = ordersTable
       /\ (lastSync' # lastSync /\ lastSync'.orders = <<>>) =>
              /\ lastSync'.ordersToProcess = 0
              /\ pendingData' = pendingData
       /\ (queue' # queue \/ processedOrders' # processedOrders) =>
              \E a \in Admins : applies[a].active]_vars

\* C12 witness: with a notification queued and its order marked, a sync run
\* fetched orders, found none unprocessed, and left no candidates behind.
C12_Witness ==
    /\ lastSync.success
    /\ lastSync.ordersFound >= 1
    /\ lastSync.ordersToProcess = 0
    /\ queue # <<>>
    /\ processedOrders # <<>>
    /\ \A a \in Admins : pendingData[a] = NoData /\ ~applies[a].active

\* C10: after a paid orders/create webhook with a genuine signature for an
\* order with one line item, there is exactly one queued message for the
\* order (kind order, Pending, to the notification channel) and exactly one
\* marker for it, with syncSource webhook.
C10_WebhookEnqueues ==
    \A o \in ShopIds :
        (hookLog[o].deliveries >= 1 /\ ShopOrder(o).line_items = 1) =>
            /\ Cardinality(QueuedFor(o)) = 1
            /\ \A i \in QueuedFor(o) :
                   /\ queue[i].type = "order"
                   /\ queue[i].status = "pending"
                   /\ queue[i].target_id = NotificationChannelId
            /\ Cardinality(MarkerRows(o)) = 1
            /\ \A i \in MarkerRows(o) : processedOrders[i].sync_source = "webhook"

\* ------------------------------------------------------ member properties
AutoDmRows(u) ==
    {i \in 1..Len(queue) : queue[i].type = "auto_dm" /\ queue[i].target_id = u}

RowsSinceJoin(u) ==
    {i \in AutoDmRows(u) : ~StrLT(queue[i].created_at, members[u].joined_at)}

HandlerStep ==
    /\ lastHook'.n # lastHook.n
    /\ lastHook'.endpoint \in {"/webhook", "handleWebhook"}

\* C11: a verified orders/create or orders/updated webhook for an order that
\* is not paid adds no queued message and no marker, sends nothing to the
\* notification channel, and is accepted (success, and 200 on the route).
C11_UnpaidNoOp ==
    [][(/\ HandlerStep
        /\ lastHook'.verified
        /\ lastHook'.topic \in {"orders/create", "orders/updated"}
        /\ ~lastHook'.paid)
       => /\ queue' = queue
          /\ processedOrders' = processedOrders
          /\ channelSends' = channelSends
          /\ lastHook'.success
          /\ lastHook'.endpoint = "/webhook" => lastHook'.status = 200]_vars

\* C11 witness: handleWebhook verified an orders/updated event of a pending
\* order and returned success, with nothing queued, marked or sent.
C11_Witness ==
    /\ lastHook.endpoint = "handleWebhook"
    /\ lastHook.verified
    /\ lastHook.topic = "orders/updated"
    /\ ~lastHook.paid
    /\ lastHook.success
    /\ queue = <<>>
    /\ processedOrders = <<>>
    /\ \A o \in OrderIds : channelSends[o] = 0

\* C13: a webhook whose signature does not verify (wrong HMAC or wrong
\* length, any topic) changes no queue row, marker or order row, sends
\* nothing, and handleWebhook returns failure.
C13_BadSignatureRejected ==
    [][(HandlerStep /\ lastHook'.signature # "valid")
       => /\ queue' = queue
          /\ processedOrders' = processedOrders
          /\ ordersTable' = ordersTable
          /\ channelSends' = channelSends
          /\ ~lastHook'.success]_vars

\* C13 witness: handleWebhook got the raw body of a paid orders/create event
\* with a signature of the wrong length, a secret being configured, and
\* returned failure.
C13_Witness ==
    /\ lastHook.endpoint = "handleWebhook"
    /\ lastHook.bodyForm = "string"
    /\ lastHook.signature = "wrong_length"
    /\ lastHook.topic = "orders/create"
    /\ lastHook.paid
    /\ secretSet
    /\ ~lastHook.success
    /\ ordersTable = {}

\* C14: POST /webhook answers 400 when a header is missing, 503 when the bot
\* is not initialized, 401 when signature verification fails, and 200 when
\* the event is accepted or is a no-op.
C14_StatusCodes ==
    lastHook.endpoint = "/webhook" =>
        lastHook.status =
            IF ~lastHook.hasHeaders THEN 400
            ELSE IF ~lastHook.ready THEN 503
            ELSE IF ~lastHook.verified THEN 401
            ELSE 200

\* C15: with the shared secret unset, no request passes signature
\* verification, on any endpoint.
C15_FailsClosed ==
    (~secretSet /\ lastHook.endpoint # "none") => ~lastHook.verified

\* C16: a verified webhook with a product topic or an unrecognized topic is
\* accepted (success, which the route answers with 200) and adds no queued
\* message, no marker, no order row and no channel send.
C16_OtherTopicsNoOp ==
    [][(/\ HandlerStep
        /\ lastHook'.verified
        /\ lastHook'.topic \in {"products/create", "products/update", "app/uninstalled"})
       => /\ lastHook'.success
          /\ ResponseStatus(TRUE, TRUE, lastHook'.success) = 200
          /\ queue' = queue
          /\ processedOrders' = processedOrders
          /\ ordersTable' = ordersTable
          /\ channelSends' = channelSends]_vars

\* C16 witness: handleWebhook verified an event with an unrecognized topic and
\* returned success, with no order row and nothing sent.
C16_Witness ==
    /\ lastHook.endpoint = "handleWebhook"
    /\ lastHook.verified
    /\ lastHook.topic = "app/uninstalled"
    /\ lastHook.success
    /\ ordersTable = {}
    /\ \A o \in OrderIds : channelSends[o] = 0

\* ----------------------------------------------- apply properties (enqueue)
\* C32: an order whose marker says notification_sent has a notification
\* message in the queue; a failed enqueue does not leave the marker set.
C32_NoSilentPartial ==
    \A o \in OrderIds :
        (\E k \in MarkerRows(o) : processedOrders[k].notification_sent)
            => QueuedFor(o) # {}

\* C33: every order notification, queued or sent to the channel, is for an
\* order whose financial_status is "paid".
C33_PaidOnly ==
    /\ \A i \in MsgIds :
           origin[i] # 0 => ShopOrder(origin[i]).financial_status = "paid"
    /\ \A o \in ShopIds :
           channelSends[o] > 0 => ShopOrder(o).financial_status = "paid"

\* C34: when a running apply comes to a candidate that already has a marker,
\* it skips it: it moves on without processing its line items and without
\* enqueueing anything.
C34_ApplySkipsMarked ==
    [][\A a \in Admins :
          (/\ applies[a].active
           /\ applies[a].item = 0
           /\ applies'[a] # applies[a]
           /\ IsOrderProcessed(processedOrders, applies[a].orders[applies[a].idx].id))
          => /\ applies'[a].item = 0
             /\ queue' = queue]_vars

\* ------------------------------------------------------- one pass, long table
\* rows left in the table when the process starts
MaxStored == 11

\* the table a stopped process leaves behind: MaxStored rows inserted one clock
\* unit apart by the admin queue test (priority 1); the newest may be an order
\* notification (priority 2); the oldest is due, already sent, or scheduled
\* for a later instant
BacklogRow(i, urgent, oldest) ==
    LET t == [day |-> i - 1, tod |-> 0]
        r == IF i = urgent
             THEN NewRow("order", "channel", NotificationChannelId, 2, NoTime, t)
             ELSE NewRow("custom_channel", "channel", NotificationChannelId, 1, NoTime, t)
    IN CASE i = 1 /\ oldest = "sent" ->
                [r EXCEPT !.status = "sent", !.sent_at = SqlDatetime(t)]
         [] i = 1 /\ oldest = "later" ->
                [r EXCEPT !.scheduled_for = SqlDatetime([day |-> MaxStored + 1, tod |-> 0])]
         [] OTHER -> r

Backlogs ==
    {[i \in 1..MaxStored |-> BacklogRow(i, urgent, oldest)] :
         urgent \in {0, MaxStored}, oldest \in {"due", "sent", "later"}}

InitDrain ==
    /\ queue \in Backlogs
    /\ deliveries = [i \in 1..Len(queue) |-> 0]
    /\ sends = [i \in 1..Len(queue) |-> 0]
    /\ origin = [i \in 1..Len(queue) |-> 0]
    /\ liveIntervals = 0
    /\ lastAdd = "none"
    /\ isProcessing = FALSE
    /\ processingInterval = FALSE
    /\ passes = [p \in PassIds |-> IdlePass]
    /\ restarts = 0
    /\ purged = {}
    /\ lastCleanup = 0
    /\ now = [day |-> MaxStored, tod |-> 0]
    /\ InitOrderTables
    /\ InitSync
    /\ InitAux
    /\ InitMembers
    /\ secretSet = TRUE

\* the process starts (initializeBot runs processOfflineMessages) and the pass
\* it begins delivers its batch
NextDrain ==
    \/ Restart
    \/ ProcessQueueStep

SpecDrain == InitDrain /\ [][NextDrain]_vars

BatchIds(p) == {passes[p].batch[i].id : i \in 1..Len(passes[p].batch)}

\* C36: a pass holds at most 10 messages, each of them pending and due when the
\* pass selected; no due message it left out sorts before one it took; and a
\* step changes no row other than the one the stepping pass has come to in its
\* batch.
C36_BatchBound ==
    [][/\ \A p \in PassIds :
              passes'[p].active =>
                  /\ Len(passes'[p].batch) <= BatchLimit
                  /\ {passes'[p].batch[i].id : i \in 1..Len(passes'[p].batch)}
                         \subseteq passes'[p].due
                  /\ \A x \in passes'[p].due :
                         (\A i \in 1..Len(passes'[p].batch) : passes'[p].batch[i].id # x)
                             => \A i \in 1..Len(passes'[p].batch) :
                                    ~SortsBefore(queue'[x], queue'[passes'[p].batch[i].id])
       /\ \A x \in 1..Len(queue) :
              (queue'[x] # queue[x] \/ deliveries'[x] # deliveries[x]) =>
                  \E p \in PassIds :
                      /\ passes[p].active
                      /\ passes'[p] # passes[p]
                      /\ passes[p].batch[passes[p].idx].id = x]_vars

\* a pass has taken 10 of 11 due messages and delivered nine of them; the
\* eleventh, the newest of the lower priority, waits
C36_Witness ==
    \E p \in PassIds :
        /\ passes[p].active
        /\ Cardinality(passes[p].due) = MaxStored
        /\ Len(passes[p].batch) = BatchLimit
        /\ passes[p].idx = BatchLimit
        /\ passes[p].batch[1].id = MaxStored
        /\ (MaxStored - 1) \notin BatchIds(p)
        /\ queue[MaxStored - 1].status = "pending"

\* ------------------------------------------------------- reactions (orders)
\* sendOrderNotification after channel.send returned: the 15-second timer that
\* adds the reactions to the message just sent (the n-th for this row); a send
\* that threw reaches the catch before the timer is set
ReactionsAfterSend_Always(r, m, ok, n) ==
    IF m.type = "order" THEN [r EXCEPT !.pending = @ \cup {<<m.id, n>>}] ELSE r

ReactionsAfterSend(r, m, ok, n) ==
    IF ok /\ m.type = "order" THEN [r EXCEPT !.pending = @ \cup {<<m.id, n>>}] ELSE r

\* one iteration of the loop, with the timer its sender sets
ProcessMessageReact(p, ok) ==
    /\ ProcessMessage(p, ok)
    /\ LET m == passes[p].batch[passes[p].idx] IN
           reactions' = ReactionsAfterSend(reactions, m, ok, sends[m.id] + 1)

\* the timer callback: sentMessage.react for each reaction, inside its own
\* try/catch; ok tells whether a react call threw
ReactionFire(r, ok) ==
    /\ r \in reactions.pending
    /\ reactions' = IF ok
                    THEN [reactions EXCEPT !.pending = @ \ {r}, !.added = @ \cup {r}]
                    ELSE [reactions EXCEPT !.pending = @ \ {r}, !.failed = @ \cup {r}]
    /\ UNCHANGED <<queueVars, restarts, cleanupVars, ordersSetting, calls, now, orderVars, memberVars>>

NextReact ==
    \/ \E pr \in Producers :
           /\ AddMessage(pr.type, pr.target_type, pr.target_id, pr.priority, NoTime)
           /\ origin' = Append(origin, 0)
           /\ UNCHANGED <<restarts, cleanupVars, auxVars, now, orderVars, memberVars>>
    \/ IntervalTick
    \/ \E p \in PassIds :
           \E ok \in BOOLEAN :
               /\ passes[p].active
               /\ ok \in SendResults(passes[p].batch[passes[p].idx].type)
               /\ ProcessMessageReact(p, ok)
    \/ \E r \in reactions.pending : \E ok \in BOOLEAN : ReactionFire(r, ok)
    \/ Restart
    \/ AdvanceClock

SpecReact == Init /\ [][NextReact]_vars

AllReactions(r) == r.pending \cup r.added \cup r.failed

\* C37: a reaction timer exists only for a notification that channel.send
\* delivered, the step that sets it marks the row sent, and the step in which
\* the reactions are added or fail changes no row of the queue.
C37_ReactionDetached ==
    [][/\ \A r \in AllReactions(reactions') :
              /\ queue'[r[1]].type = "order"
              /\ r[2] <= sends'[r[1]]
       /\ \A r \in AllReactions(reactions') \ AllReactions(reactions) :
              /\ sends'[r[1]] = sends[r[1]] + 1
              /\ queue'[r[1]].status = "sent"
       /\ (reactions'.added # reactions.added \/ reactions'.failed # reactions.failed)
              => queue' = queue /\ deliveries' = deliveries /\ sends' = sends]_vars

\* the reactions of a delivered notification failed and its row is sent, with
\* no attempt counted and no error recorded
C37_Witness ==
    \E r \in reactions.failed :
        /\ queue[r[1]].status = "sent"
        /\ queue[r[1]].attempts = 0
        /\ queue[r[1]].error_message = "NULL"

\* ------------------------------------------------------- error recording
\* C38: a message with a delivery attempt that failed has an error text
\* recorded, whether or not the failure was terminal, and every failed message
\* has one.
C38_ErrorRecorded ==
    \A i \in 1..Len(queue) :
        /\ deliveries[i] > sends[i] => queue[i].error_message # "NULL"
        /\ queue[i].status = "failed" => queue[i].error_message # "NULL"

\* ------------------------------------------------------- the loop's timer
\* calls on the queue object that the log keeps
MaxCalls == 3

\* a caller's addMessage; insertOk tells whether db.run resolved
QueueAdd(pr, insertOk) ==
    /\ Len(calls) < MaxCalls
    /\ calls' = Append(calls, "addMessage")
    /\ IF insertOk
       THEN /\ AddMessage(pr.type, pr.target_type, pr.target_id, pr.priority, NoTime)
            /\ origin' = Append(origin, 0)
       ELSE /\ AddMessageFails
            /\ origin' = origin
    /\ UNCHANGED <<restarts, cleanupVars, ordersSetting, reactions, now, orderVars, memberVars>>

\* a direct call of startProcessing
StartProcessingCall ==
    /\ Len(calls) < MaxCalls
    /\ calls' = Append(calls, "startProcessing")
    /\ StartProcessing(queue)
    /\ UNCHANGED <<queue, deliveries, sends, origin, lastAdd, restarts, cleanupVars,
                   ordersSetting, reactions, now, orderVars, memberVars>>

\* stopProcessing: clearInterval on the handle held, if any, and both fields
\* reset; a pass in progress goes on
StopProcessing ==
    /\ Len(calls) < MaxCalls
    /\ calls' = Append(calls, "stopProcessing")
    /\ liveIntervals' = IF processingInterval THEN liveIntervals - 1 ELSE liveIntervals
    /\ processingInterval' = FALSE
    /\ isProcessing' = FALSE
    /\ UNCHANGED <<queue, passes, deliveries, sends, origin, lastAdd, restarts, cleanupVars,
                   ordersSetting, reactions, now, orderVars, memberVars>>

NextTimer ==
    \/ \E pr \in Producers, insertOk \in BOOLEAN : QueueAdd(pr, insertOk)
    \/ StartProcessingCall
    \/ StopProcessing
    \/ IntervalTick
    \/ ProcessQueueStep
    \/ AdvanceClock

SpecTimer == Init /\ [][NextTimer]_vars

LastCall == IF calls = <<>> THEN "none" ELSE calls[Len(calls)]

\* C39: at most one interval timer is installed, the queue object holds its
\* handle exactly when one is, and after an addMessage that inserted its row
\* one is installed, whatever calls came before.
C39_SingleTimer ==
    /\ liveIntervals <= 1
    /\ processingInterval <=> liveIntervals = 1
    /\ (LastCall = "addMessage" /\ lastAdd = "true") => liveIntervals = 1

\* the loop was started, stopped, and the addMessage that followed installed
\* the one timer there is
C39_Witness ==
    /\ calls = <<"startProcessing", "stopProcessing", "addMessage">>
    /\ lastAdd = "true"
    /\ liveIntervals = 1

\* a second startProcessing while the interval is installed
C39_WitnessNoOp ==
    /\ calls = <<"addMessage", "startProcessing", "startProcessing">>
    /\ lastAdd = "true"
    /\ liveIntervals = 1

\* ------------------------------------------------------- addMessage's effect
\* C40: a call of addMessage either returns true having appended exactly one
\* row, pending with no attempts, or returns false having inserted nothing; in
\* both cases the rows already in the table are as before.
C40_AddMessageFrame ==
    [][(Len(calls') = Len(calls) + 1 /\ calls'[Len(calls')] = "addMessage") =>
           \/ /\ lastAdd' = "true"
              /\ Len(queue') = Len(queue) + 1
              /\ SubSeq(queue', 1, Len(queue)) = queue
              /\ queue'[Len(queue')].status = "pending"
              /\ queue'[Len(queue')].attempts = 0
           \/ /\ lastAdd' = "false"
              /\ queue' = queue]_vars

\* an addMessage whose INSERT failed, after one that inserted its row: false
\* was returned and the table holds the one earlier row
C40_Witness ==
    /\ Len(calls) >= 2
    /\ calls[Len(calls) - 1] = "addMessage"
    /\ LastCall = "addMessage"
    /\ lastAdd = "false"
    /\ Len(queue) = 1

\* two calls that both inserted
C40_WitnessInserted ==
    /\ calls = <<"addMessage", "addMessage">>
    /\ lastAdd = "true"
    /\ Len(queue) = 2
    /\ queue[2].status = "pending"
    /\ queue[2].attempts = 0

====
